---- MODULE Spec2Model ----
(***************************************************************************)
(* Model of perovskites-distortions:                                       *)
(*   oct_distortions.get_tilting_angles   (B-X-B tilting angle engine)     *)
(*   rotations.get_a_cation_sites         (A-cation locator)               *)
(*   rotations.rotate_a_cation            (rigid rotator)                  *)
(*   rotations.get_center_of_mass         (helper of the rotator)          *)
(*                                                                         *)
(* Site indices are Python indices (0-based); a Structure is a sequence of *)
(* sites, site i being element i+1 of the sequence.  The geometry library  *)
(* (minimum-image distance, neighbour search, angle, perturbation,         *)
(* rotation) is external: its results are inputs, drawn from small sets,   *)
(* and positions are kept symbolically as the list of operations applied   *)
(* to the original position.                                               *)
(***************************************************************************)
EXTENDS Integers, Sequences, FiniteSets, TLC

VARIABLES
    heap,              \* object store: reference -> Structure (sequence of sites)
    struct,            \* the caller's reference to the input structure
    struct0,           \* history: contents of the input structure at call time
    pc,                \* position in the running function
    error,             \* exception that ended the call, or "none"
    result,            \* returned value, or NoValue
    printed,           \* lines written by print()
    \* ---- get_tilting_angles
    neighbors,         \* resolver output per B site (raw neighbour indices)
    algorithm,         \* 'neighbors' or 'crystal_nn'
    b_sites,
    b_sites_copy,      \* candidate pool
    it1,               \* position of the outer list iterator
    b_site_1,
    it2,               \* position of the inner list iterator
    angles_b_x_b,
    nearPairs,         \* pairs whose distance was found below the cutoff
    farPairs,          \* pairs whose distance was found at or above the cutoff
    tested,            \* history: pairs whose distance was tested, in order
    bridged,           \* history: pairs whose bridging set was computed
    skipped,           \* history: pairs left in the pool at a break
    \* ---- get_a_cation_sites
    carbon_sites,
    fa_molecules,
    count,
    found,             \* history: neighbour lists returned by get_neighbors
    \* ---- rotate_a_cation
    groups,            \* fa_molecules argument
    maximum_angle,
    struct_rotated,    \* reference held by the local variable, or "unset"
    gi,                \* number of groups whose loop body has started
    angle,
    center_of_mass,
    rotLog,            \* history: one record per rotate_sites call
    perturbs           \* history: number of perturb calls

vars == << heap, struct, struct0, pc, error, result, printed,
           neighbors, algorithm, b_sites, b_sites_copy, it1, b_site_1, it2,
           angles_b_x_b, nearPairs, farPairs, tested, bridged, skipped,
           carbon_sites, fa_molecules, count, found,
           groups, maximum_angle, struct_rotated, gi, angle, center_of_mass,
           rotLog, perturbs >>

tiltVars == << neighbors, algorithm, b_sites, b_sites_copy, it1, b_site_1, it2,
               angles_b_x_b, nearPairs, farPairs, tested, bridged, skipped >>
locVars  == << carbon_sites, fa_molecules, count, found >>
rotVars  == << groups, maximum_angle, struct_rotated, gi, angle, center_of_mass,
               rotLog, perturbs >>

(***************************************************************************)
(* Bounds of the model and program constants                               *)
(***************************************************************************)
MaxB       == 4     \* at most this many B-cation sites
NumX       == 6     \* X-anion sites in a tilting-angle input
MaxSites   == 3     \* sites of a locator / rotator input
MaxNbrs    == 2     \* longest neighbour list of a marker site
MaxGroups  == 2     \* groups handed to rotate_a_cation
MaxAngle   == 2     \* largest maximum_angle tried
Octahedral == 6     \* the coordination number the engine asserts
OneLength  == 1     \* the number of distinct group lengths the locator asserts

NoValue == [kind |-> "none", val |-> 0]
NaN     == [kind |-> "nan", val |-> 0]
Value(v) == [kind |-> "value", val |-> v]

(***************************************************************************)
(* Python helpers                                                          *)
(***************************************************************************)
Range(s) == { s[i] : i \in 1..Len(s) }

\* list.remove(x): drop the first occurrence of x
Remove(s, x) ==
    LET p == CHOOSE i \in 1..Len(s) : s[i] = x /\ \A j \in 1..(i-1) : s[j] # x
    IN  [ i \in 1..(Len(s)-1) |-> IF i < p THEN s[i] ELSE s[i+1] ]

\* list[index] with Python's negative indices; InRange is the absence of IndexError
InRange(s, index) == index < Len(s) /\ index >= -Len(s)
Item(s, index) == IF index >= 0 THEN s[index + 1] ELSE s[Len(s) + index + 1]

Indices(s) == [ i \in 1..Len(s) |-> i - 1 ]

\* [index for index, site in enumerate(struct) if site.species_string == species]
SitesOf(s, species) ==
    SelectSeq(Indices(s), LAMBDA i : s[i + 1].species = species)

Site(species, i) == [species |-> species, coords |-> << [op |-> "orig", k |-> i] >>]

RECURSIVE Sum(_)
Sum(s) == IF s = << >> THEN 0 ELSE Head(s) + Sum(Tail(s))

\* round to the nearest integer, ties to the even one (num >= 0, den > 0)
RoundHalfEven(num, den) ==
    LET q == num \div den
        r == num % den
    IN  IF 2 * r < den THEN q
        ELSE IF 2 * r > den THEN q + 1
        ELSE IF q % 2 = 0 THEN q ELSE q + 1

(***************************************************************************)
(* get_tilting_angles                                                      *)
(***************************************************************************)
b_cation == "Pb"
x_anion  == "I"
Algorithms == {"neighbors", "crystal_nn"}

\* input structures: NumX anion sites followed by n B sites
XFirst(n) == [ i \in 1..(n + NumX) |-> Site(IF i <= NumX THEN x_anion ELSE b_cation, i - 1) ]
TiltStructures == { XFirst(n) : n \in 0..MaxB }

\* what a neighbour search may return for a B site of structure s (site indices,
\* one entry per periodic image found): the six anions, three anions seen through
\* two images each (two disjoint choices), or five anions and a B site
NeighborLists(s) ==
    LET X == SitesOf(s, x_anion)
        B == SitesOf(s, b_cation)
    IN  IF B = << >> THEN {}
        ELSE { << X[1], X[2], X[3], X[4], X[5], X[6] >>,
               << X[1], X[1], X[2], X[2], X[3], X[3] >>,
               << X[4], X[4], X[5], X[5], X[6], X[6] >>,
               << X[1], X[2], X[3], X[4], X[5], B[1] >> }

\* [site.index for site in <neighbours of b> if site.species_string == x_anion]
XNeighbors(b) ==
    SelectSeq(neighbors[b], LAMBDA i : Item(heap[struct], i).species = x_anion)

\* atoms.get_angle(b1, x, b2, mic=True) in units of 1e-4 degree
AseAngle(b1, x, b2) == 1800000 - 44435 * ((b1 + b2 + x) % 3)

\* round(angle, 3): 1e-4 degree -> 1e-3 degree
Round3(raw) == RoundHalfEven(raw, 10)

\* round(np.mean(angles), 3): the mean of no angles is nan
MeanRounded(angles) ==
    IF angles = << >> THEN NaN
    ELSE Value(RoundHalfEven(Sum(angles), Len(angles)))

\* len(x_neighbors) == 6 (AtMostOctahedral: the faulty variant "<= 6")
AtMostOctahedral(xs) == Len(xs) <= Octahedral
CoordinationOK(xs) == Len(xs) = Octahedral

\* lines 68 and 69 (NoAssert: the faulty variant with the assertion left out)
NoAssert(xs) == TRUE
Assert1(xs) == CoordinationOK(xs)
Assert2(xs) == CoordinationOK(xs)

\* list(set(x1).intersection(x2)), in increasing index order
CommonX(x1, x2) ==
    LET common == Range(x1) \cap Range(x2)
    IN  SelectSeq(Indices(heap[struct]), LAMBDA i : i \in common)

Pair(b1, b2) == {b1, b2}


\* what the loop does after "No common X" (line 75: break; NoBridgeContinue is
\* the faulty variant with "continue")
NoBridgeContinue(j) == [pc |-> "inner", it2 |-> j + 1]
NoBridgeExit(j) == [pc |-> "outer", it2 |-> j]

TiltIdle ==
    /\ neighbors = << >> /\ algorithm = "neighbors"
    /\ b_sites = << >> /\ b_sites_copy = << >> /\ it1 = 0 /\ b_site_1 = -1 /\ it2 = 0
    /\ angles_b_x_b = << >> /\ nearPairs = {} /\ farPairs = {}
    /\ tested = << >> /\ bridged = {} /\ skipped = {}

LocIdle ==
    /\ carbon_sites = << >> /\ fa_molecules = << >> /\ count = 0 /\ found = << >>

RotIdle ==
    /\ groups = << >> /\ maximum_angle = 0 /\ struct_rotated = "unset"
    /\ gi = 0 /\ angle = 0 /\ center_of_mass = [terms |-> << >>, total |-> 0]
    /\ rotLog = << >> /\ perturbs = 0

CallIdle ==
    /\ struct = "in" /\ struct0 = heap[struct]
    /\ pc = "call" /\ error = "none" /\ result = NoValue /\ printed = << >>

\* the call get_tilting_angles(struct, algorithm=...) on some input
InitTilt ==
    /\ \E s \in TiltStructures :
          /\ heap = [r \in {"in"} |-> s]
          /\ neighbors \in [Range(SitesOf(s, b_cation)) -> NeighborLists(s)]
    /\ algorithm \in Algorithms
    /\ b_sites = << >> /\ b_sites_copy = << >> /\ it1 = 0 /\ b_site_1 = -1 /\ it2 = 0
    /\ angles_b_x_b = << >> /\ nearPairs = {} /\ farPairs = {}
    /\ tested = << >> /\ bridged = {} /\ skipped = {}
    /\ CallIdle /\ LocIdle /\ RotIdle

\* lines 43-50
TiltSetup ==
    /\ pc = "call"
    /\ b_sites' = SitesOf(heap[struct], b_cation)
    /\ b_sites_copy' = b_sites'
    /\ angles_b_x_b' = << >>
    /\ it1' = 0
    /\ pc' = "outer"
    /\ UNCHANGED << heap, struct, struct0, error, result, printed, neighbors,
                    algorithm, b_site_1, it2, nearPairs, farPairs, tested,
                    bridged, skipped, locVars, rotVars >>

\* lines 52-53: the list iterator yields the item at its position, then the
\* item is removed from the list it iterates
OuterNext ==
    /\ pc = "outer"
    /\ it1 < Len(b_sites_copy)
    /\ b_site_1' = b_sites_copy[it1 + 1]
    /\ it1' = it1 + 1
    /\ b_sites_copy' = Remove(b_sites_copy, b_site_1')
    /\ it2' = 0
    /\ pc' = "inner"
    /\ UNCHANGED << heap, struct, struct0, error, result, printed, neighbors,
                    algorithm, b_sites, angles_b_x_b, nearPairs, farPairs, tested,
                    bridged, skipped, locVars, rotVars >>

\* line 52: the outer iterator is exhausted
OuterDone ==
    /\ pc = "outer"
    /\ it1 >= Len(b_sites_copy)
    /\ pc' = "return"
    /\ UNCHANGED << heap, struct, struct0, error, result, printed, tiltVars,
                    locVars, rotVars >>

\* line 55: the inner iterator is exhausted
InnerDone ==
    /\ pc = "inner"
    /\ it2 >= Len(b_sites_copy)
    /\ pc' = "outer"
    /\ UNCHANGED << heap, struct, struct0, error, result, printed, tiltVars,
                    locVars, rotVars >>

\* line 56-57: struct.get_distance(b1, b2) < distance_between_b_cations; the
\* answer for a pair is an input, fixed the first time the pair is asked about
DistanceBelow(b1, b2, near) ==
    /\ Pair(b1, b2) \in nearPairs => near
    /\ Pair(b1, b2) \in farPairs => ~near
    /\ nearPairs' = IF near THEN nearPairs \cup {Pair(b1, b2)} ELSE nearPairs
    /\ farPairs' = IF near THEN farPairs ELSE farPairs \cup {Pair(b1, b2)}
    /\ tested' = Append(tested, << b1, b2 >>)

\* lines 55-57: the pair is not adjacent
PairFar ==
    /\ pc = "inner"
    /\ it2 < Len(b_sites_copy)
    /\ DistanceBelow(b_site_1, b_sites_copy[it2 + 1], FALSE)
    /\ it2' = it2 + 1
    /\ UNCHANGED << heap, struct, struct0, pc, error, result, printed, neighbors,
                    algorithm, b_sites, b_sites_copy, it1, b_site_1, angles_b_x_b,
                    bridged, skipped, locVars, rotVars >>

\* lines 55-69: the pair is adjacent and one of the two assertions fails
PairAssertFail ==
    /\ pc = "inner"
    /\ it2 < Len(b_sites_copy)
    /\ algorithm \in Algorithms
    /\ LET b_site_2 == b_sites_copy[it2 + 1]
       IN  /\ DistanceBelow(b_site_1, b_site_2, TRUE)
           /\ ~(Assert1(XNeighbors(b_site_1)) /\ Assert2(XNeighbors(b_site_2)))
    /\ error' = "AssertionError"
    /\ pc' = "failed"
    /\ UNCHANGED << heap, struct, struct0, result, printed, neighbors, algorithm,
                    b_sites, b_sites_copy, it1, b_site_1, it2, angles_b_x_b,
                    bridged, skipped, locVars, rotVars >>

\* lines 55-75: the pair is adjacent, both counts pass, no common anion
PairNoBridge ==
    /\ pc = "inner"
    /\ it2 < Len(b_sites_copy)
    /\ algorithm \in Algorithms
    /\ LET b_site_2 == b_sites_copy[it2 + 1]
           x1 == XNeighbors(b_site_1)
           x2 == XNeighbors(b_site_2)
       IN  /\ DistanceBelow(b_site_1, b_site_2, TRUE)
           /\ Assert1(x1) /\ Assert2(x2)
           /\ CommonX(x1, x2) = << >>
           /\ bridged' = bridged \cup {<< b_site_1, b_site_2 >>}
    /\ printed' = Append(printed, "No common I between the Pb")
    /\ skipped' = skipped \cup
           { << b_site_1, b_sites_copy[j] >> : j \in (it2 + 2)..Len(b_sites_copy) }
    /\ pc' = NoBridgeExit(it2).pc
    /\ it2' = NoBridgeExit(it2).it2
    /\ UNCHANGED << heap, struct, struct0, error, result, neighbors, algorithm,
                    b_sites, b_sites_copy, it1, b_site_1, angles_b_x_b,
                    locVars, rotVars >>

\* lines 55-81: the pair is adjacent, both counts pass, one angle per common anion
PairAngles ==
    /\ pc = "inner"
    /\ it2 < Len(b_sites_copy)
    /\ algorithm \in Algorithms
    /\ LET b_site_2 == b_sites_copy[it2 + 1]
           x1 == XNeighbors(b_site_1)
           x2 == XNeighbors(b_site_2)
           common_x_anions == CommonX(x1, x2)
       IN  /\ DistanceBelow(b_site_1, b_site_2, TRUE)
           /\ Assert1(x1) /\ Assert2(x2)
           /\ common_x_anions # << >>
           /\ bridged' = bridged \cup {<< b_site_1, b_site_2 >>}
           /\ angles_b_x_b' = angles_b_x_b \o
                 [ j \in 1..Len(common_x_anions) |->
                     Round3(AseAngle(b_site_1, common_x_anions[j], b_site_2)) ]
    /\ it2' = it2 + 1
    /\ UNCHANGED << heap, struct, struct0, pc, error, result, printed, neighbors,
                    algorithm, b_sites, b_sites_copy, it1, b_site_1, skipped,
                    locVars, rotVars >>

\* lines 82-84
TiltReturn ==
    /\ pc = "return"
    /\ \E verbose \in BOOLEAN :
          printed' = IF verbose THEN Append(printed, "Tilting angles: ") ELSE printed
    /\ result' = MeanRounded(angles_b_x_b)
    /\ pc' = "done"
    /\ UNCHANGED << heap, struct, struct0, error, tiltVars, locVars, rotVars >>

NextTilt ==
    \/ TiltSetup \/ OuterNext \/ OuterDone \/ InnerDone
    \/ PairFar \/ PairAssertFail \/ PairNoBridge \/ PairAngles \/ TiltReturn

SpecTilt == InitTilt /\ [][NextTilt]_vars


(***************************************************************************)
(* get_a_cation_sites                                                      *)
(***************************************************************************)
a_cation_center_species == "C"

\* input structures: every sequence of at most MaxSites sites of these species
Molecules ==
    UNION { { [ i \in 1..n |-> Site(sp[i], i - 1) ] : sp \in [1..n -> {"C", "H"}] }
            : n \in 0..MaxSites }

\* what struct.get_neighbors(site, r) may return for site `index` of s: the n
\* sites that follow it in the structure, cyclically (its own periodic image
\* included once n reaches the number of sites)
NeighborsOf(s, index, n) == [ j \in 1..n |-> (index + j) % Len(s) ]

\* len(set([len(molecule) for molecule in fa_molecules])) == 1
\* (AtMostOneLength: the faulty variant "<= 1")
AtMostOneLength(molecules) ==
    Cardinality({ Len(molecules[i]) : i \in 1..Len(molecules) }) <= OneLength
SameLength(molecules) ==
    Cardinality({ Len(molecules[i]) : i \in 1..Len(molecules) }) = OneLength

\* lines 44-45: [index,] + [site.index for site in neighbors]
\* (NeighborsOnly: the faulty variant that leaves the marker out)
NeighborsOnly(index, nbrs) == nbrs
Molecule(index, nbrs) == << index >> \o nbrs

InitLocate ==
    /\ \E s \in Molecules : heap = [r \in {"in"} |-> s]
    /\ CallIdle /\ LocIdle /\ TiltIdle /\ RotIdle

\* lines 37-39
LocSetup ==
    /\ pc = "call"
    /\ carbon_sites' = SitesOf(heap[struct], a_cation_center_species)
    /\ fa_molecules' = << >>
    /\ count' = 0
    /\ pc' = "loop"
    /\ UNCHANGED << heap, struct, struct0, error, result, printed, found,
                    tiltVars, rotVars >>

\* lines 40-46: one marker site; count is also the position of the iterator
LocVisit ==
    /\ pc = "loop"
    /\ count < Len(carbon_sites)
    /\ \E n \in 0..MaxNbrs :
          LET index == carbon_sites[count + 1]
              nbrs == NeighborsOf(heap[struct], index, n)
          IN  /\ found' = Append(found, nbrs)
              /\ printed' = Append(printed,
                     [ j \in 1..n |-> Item(heap[struct], nbrs[j]).species ])
              /\ fa_molecules' = Append(fa_molecules, Molecule(index, nbrs))
    /\ count' = count + 1
    /\ UNCHANGED << heap, struct, struct0, pc, error, result, carbon_sites,
                    tiltVars, rotVars >>

\* line 48: the assertion fails
LocAssertFail ==
    /\ pc = "loop"
    /\ count >= Len(carbon_sites)
    /\ ~SameLength(fa_molecules)
    /\ error' = "AssertionError"
    /\ pc' = "failed"
    /\ UNCHANGED << heap, struct, struct0, result, printed, locVars,
                    tiltVars, rotVars >>

\* lines 48-49
LocReturn ==
    /\ pc = "loop"
    /\ count >= Len(carbon_sites)
    /\ SameLength(fa_molecules)
    /\ result' = Value(fa_molecules)
    /\ pc' = "done"
    /\ UNCHANGED << heap, struct, struct0, error, printed, locVars,
                    tiltVars, rotVars >>

NextLocate == LocSetup \/ LocVisit \/ LocAssertFail \/ LocReturn

SpecLocate == InitLocate /\ [][NextLocate]_vars


(***************************************************************************)
(* rotate_a_cation and get_center_of_mass                                  *)
(***************************************************************************)
\* site.species.weight in units of 1e-3 u
Weight(species) == IF species = "C" THEN 12011 ELSE 1008

\* input structures: the first n sites of a C-H-H-... molecule
RotStructures ==
    { [ i \in 1..n |-> Site(IF i = 1 THEN "C" ELSE "H", i - 1) ] : n \in 0..MaxSites }

\* groups of site indices for a structure of n sites: the empty group, one index
\* (-1 is the last site, n is out of range), or the first two sites
GroupMenu(n) == { << >>, << 0, 1 >> } \cup { << i >> : i \in -1..n }
GroupLists(n) == UNION { [1..m -> GroupMenu(n)] : m \in 0..MaxGroups }

\* deepcopy(struct): a new object with the same contents
\* (AliasCopy: the faulty variant "struct_rotated = struct")
AliasCopy(ref) == [ref |-> ref, heap |-> heap]
DeepCopy(ref) == [ref |-> "copy", heap |-> [r \in DOMAIN heap \cup {"copy"} |-> heap[ref]]]

\* structure.perturb(distance): every site is displaced
Perturb(s, n) ==
    [ i \in 1..Len(s) |-> [s[i] EXCEPT !.coords = Append(@, [op |-> "perturb", k |-> n])] ]

\* get_center_of_mass, lines 14-21: IndexError unless every index is in range
CenterOK(s, sites_indexes) ==
    \A j \in 1..Len(sites_indexes) : InRange(s, sites_indexes[j])

\* get_center_of_mass, lines 14-21: the weighted sum of the positions and the
\* total weight it is divided by (nan when the total is 0)
get_center_of_mass(s, sites_indexes) ==
    LET terms == [ j \in 1..Len(sites_indexes) |->
                     [coords |-> Item(s, sites_indexes[j]).coords,
                      wt |-> Weight(Item(s, sites_indexes[j]).species)] ]
    IN  [terms |-> terms, total |-> Sum([ j \in 1..Len(terms) |-> terms[j].wt ])]

\* the structure whose sites the center of mass is computed from (line 76;
\* CenterSourceInput: the faulty variant that reads the input structure)
CenterSourceInput == struct
CenterSource == struct_rotated

\* structure.rotate_sites(indices, theta, axis, anchor, to_unit_cell=False):
\* the listed sites are rotated one after another; k names the call
RECURSIVE rotate_sites(_, _, _)
rotate_sites(s, indices, k) ==
    IF indices = << >> THEN s
    ELSE LET i == Head(indices)
             p == IF i >= 0 THEN i + 1 ELSE Len(s) + i + 1
         IN  rotate_sites(
                [s EXCEPT ![p].coords = Append(@, [op |-> "rotate", k |-> k])],
                Tail(indices), k)

\* random.randrange(-maximum_angle, maximum_angle): ValueError on an empty range
AngleRange(m) == (-m)..(m - 1)

InitRotate ==
    /\ \E s \in RotStructures :
          /\ heap = [r \in {"in"} |-> s]
          /\ groups \in GroupLists(Len(s))
    /\ maximum_angle \in 0..MaxAngle
    /\ struct_rotated = "unset"
    /\ gi = 0 /\ angle = 0 /\ center_of_mass = [terms |-> << >>, total |-> 0]
    /\ rotLog = << >> /\ perturbs = 0
    /\ CallIdle /\ TiltIdle /\ LocIdle

\* line 69
RotCopy ==
    /\ pc = "call"
    /\ struct_rotated' = DeepCopy(struct).ref
    /\ heap' = DeepCopy(struct).heap
    /\ pc' = "perturb"
    /\ UNCHANGED << struct, struct0, error, result, printed, groups, maximum_angle,
                    gi, angle, center_of_mass, rotLog, perturbs, tiltVars, locVars >>

\* line 72
RotPerturb ==
    /\ pc = "perturb"
    /\ perturbs' = perturbs + 1
    /\ heap' = [heap EXCEPT ![struct_rotated] = Perturb(@, perturbs')]
    /\ pc' = "for"
    /\ UNCHANGED << struct, struct0, error, result, printed, groups, maximum_angle,
                    struct_rotated, gi, angle, center_of_mass, rotLog,
                    tiltVars, locVars >>

\* lines 73-74: the next group, and its angle
RotDraw ==
    /\ pc = "for"
    /\ gi < Len(groups)
    /\ gi' = gi + 1
    /\ \E a \in AngleRange(maximum_angle) : angle' = a
    /\ pc' = "center"
    /\ UNCHANGED << heap, struct, struct0, error, result, printed, groups,
                    maximum_angle, struct_rotated, center_of_mass, rotLog, perturbs,
                    tiltVars, locVars >>

\* lines 73-74: randrange raises on an empty range
RotDrawFail ==
    /\ pc = "for"
    /\ gi < Len(groups)
    /\ AngleRange(maximum_angle) = {}
    /\ gi' = gi + 1
    /\ error' = "ValueError"
    /\ pc' = "failed"
    /\ UNCHANGED << heap, struct, struct0, result, printed, groups, maximum_angle,
                    struct_rotated, angle, center_of_mass, rotLog, perturbs,
                    tiltVars, locVars >>

\* line 76
RotCenter ==
    /\ pc = "center"
    /\ CenterOK(heap[CenterSource], groups[gi])
    /\ center_of_mass' = get_center_of_mass(heap[CenterSource], groups[gi])
    /\ pc' = "rotate"
    /\ UNCHANGED << heap, struct, struct0, error, result, printed, groups,
                    maximum_angle, struct_rotated, gi, angle, rotLog, perturbs,
                    tiltVars, locVars >>

\* line 76 (line 17): a site index of the group is out of range
RotCenterFail ==
    /\ pc = "center"
    /\ ~CenterOK(heap[CenterSource], groups[gi])
    /\ error' = "IndexError"
    /\ pc' = "failed"
    /\ UNCHANGED << heap, struct, struct0, result, printed, groups, maximum_angle,
                    struct_rotated, gi, angle, center_of_mass, rotLog, perturbs,
                    tiltVars, locVars >>

\* lines 77-83
RotRotate ==
    /\ pc = "rotate"
    /\ rotLog' = Append(rotLog, [sites |-> groups[gi], angle |-> angle,
                                 anchor |-> center_of_mass, group |-> gi])
    /\ heap' = [heap EXCEPT ![struct_rotated] = rotate_sites(@, groups[gi], Len(rotLog'))]
    /\ pc' = "for"
    /\ UNCHANGED << struct, struct0, error, result, printed, groups, maximum_angle,
                    struct_rotated, gi, angle, center_of_mass, perturbs,
                    tiltVars, locVars >>

\* lines 73, 84: no group is left
RotReturn ==
    /\ pc = "for"
    /\ gi >= Len(groups)
    /\ result' = Value(struct_rotated)
    /\ pc' = "done"
    /\ UNCHANGED << heap, struct, struct0, error, groups, maximum_angle,
                    struct_rotated, gi, angle, center_of_mass, rotLog, perturbs,
                    printed, tiltVars, locVars >>

NextRotate ==
    \/ RotCopy \/ RotPerturb \/ RotDraw \/ RotDrawFail
    \/ RotCenter \/ RotCenterFail \/ RotRotate \/ RotReturn

SpecRotate == InitRotate /\ [][NextRotate]_vars


(***************************************************************************)
(* Properties of get_tilting_angles (specification SpecTilt)               *)
(***************************************************************************)
Terminal == pc \in {"done", "failed"}
BSitesOfInput == Range(SitesOf(struct0, b_cation))
TimesTested(b1, b2) ==
    Cardinality({ i \in 1..Len(tested) : Pair(tested[i][1], tested[i][2]) = Pair(b1, b2) })
NoEarlyExit == \A i \in 1..Len(printed) : printed[i] # "No common I between the Pb"
BadCount(b) == Len(XNeighbors(b)) # Octahedral
ReachedBadPair ==
    \E i \in 1..Len(tested) :
        /\ Pair(tested[i][1], tested[i][2]) \in nearPairs
        /\ BadCount(tested[i][1]) \/ BadCount(tested[i][2])

\* C1: when the call returns without a validation failure and without an
\* empty-bridge early exit, every unordered pair of distinct B sites has had
\* its distance tested exactly once, and no site was paired with itself.
C1_EveryPairOnce ==
    (pc = "done" /\ NoEarlyExit) =>
        /\ \A b1, b2 \in BSitesOfInput : b1 # b2 => TimesTested(b1, b2) = 1
        /\ \A i \in 1..Len(tested) : tested[i][1] # tested[i][2]

\* C2 (as stated): once the call has ended, if some B site of the input has a
\* number of coordinating anions other than 6, the call has ended in an
\* assertion failure and has returned nothing.
C2_AnyBadSiteAborts ==
    (Terminal /\ \E b \in BSitesOfInput : BadCount(b)) =>
        (pc = "failed" /\ error = "AssertionError" /\ result.kind = "none")

\* C2 (amended): the call ends in an assertion failure, returning nothing,
\* exactly when its pair loop has reached a pair below the adjacency cutoff in
\* which one of the two B sites has a number of coordinating anions other than 6.
C2_ReachedBadPairAborts ==
    /\ ReachedBadPair =>
          (pc = "failed" /\ error = "AssertionError" /\ result.kind = "none")
    /\ pc = "failed" => ReachedBadPair

\* C2 witness: the call was aborted by the count of the second site of a pair
C2_Witness ==
    /\ pc = "failed" /\ error = "AssertionError"
    /\ ~BadCount(b_site_1)
    /\ BadCount(b_sites_copy[it2 + 1])

\* C3: a call that returns with an empty angle list does not return
\* not-a-number.
C3_EmptyIsNotNaN ==
    (pc = "done" /\ angles_b_x_b = << >>) => result.kind # "nan"

\* the step in which the pair (b_site_1, next candidate) is found adjacent,
\* with both counts 6 and no common anion
NoBridgeStep ==
    /\ pc = "inner" /\ it2 < Len(b_sites_copy)
    /\ tested' = Append(tested, << b_site_1, b_sites_copy[it2 + 1] >>)
    /\ Pair(b_site_1, b_sites_copy[it2 + 1]) \in nearPairs'
    /\ ~BadCount(b_site_1) /\ ~BadCount(b_sites_copy[it2 + 1])
    /\ Range(XNeighbors(b_site_1)) \cap Range(XNeighbors(b_sites_copy[it2 + 1])) = {}

\* C4: a step that finds an adjacent pair with both counts 6 and no common
\* anion prints the diagnostic, raises nothing, appends no angle and hands
\* control back to the outer loop; the candidates that followed the pair in
\* the pool are never tested, resolved or bridged with that b1.
C4_NoBridgeBreaks ==
    /\ [][ NoBridgeStep =>
              /\ printed' = Append(printed, "No common I between the Pb")
              /\ error' = "none" /\ pc' = "outer"
              /\ angles_b_x_b' = angles_b_x_b
              /\ b_sites_copy' = b_sites_copy /\ it1' = it1 ]_vars
    /\ [](\A p \in skipped :
              /\ TimesTested(p[1], p[2]) = 0
              /\ \A q \in bridged : Pair(q[1], q[2]) # Pair(p[1], p[2]))

\* C4 witness: a break skipped candidates, and the call went on to return
C4_Witness ==
    /\ skipped # {} /\ pc = "done"
    /\ \E p \in skipped : \E i \in 1..Len(tested) : tested[i][1] # p[1] /\ tested[i][2] = p[2]

\* C8 (as stated): whenever the bridging set of a pair is computed, the
\* coordination of each of the two B sites holds exactly 6 distinct indices.
C8_SixDistinct ==
    \A q \in bridged :
        /\ Cardinality(Range(XNeighbors(q[1]))) = Octahedral
        /\ Cardinality(Range(XNeighbors(q[2]))) = Octahedral

\* C8 (amended): whenever the bridging set of a pair is computed, the
\* resolver's list for each of the two B sites has exactly 6 entries.
C8_SixEntries ==
    \A q \in bridged :
        /\ Len(XNeighbors(q[1])) = Octahedral
        /\ Len(XNeighbors(q[2])) = Octahedral

\* C8 witness: a bridging set was computed from a list of 6 entries that
\* holds fewer than 6 distinct indices
C8_Witness ==
    \E q \in bridged :
        /\ Len(XNeighbors(q[1])) = Octahedral
        /\ Cardinality(Range(XNeighbors(q[1]))) < Octahedral

(***************************************************************************)
(* Properties of get_a_cation_sites (specification SpecLocate)             *)
(***************************************************************************)
MarkersOfInput == SitesOf(struct0, a_cation_center_species)
UnequalGroups ==
    \E i, j \in 1..Len(found) : Len(found[i]) # Len(found[j])

\* C7: with at least one marker site, a returned value holds one group per
\* marker site in structure order, each the marker's index followed by the
\* neighbour indices found for it, all of the same length; and a call whose
\* groups differ in length ends in an assertion failure, returning nothing.
C7_GroupsPerMarker ==
    /\ (pc = "done" /\ MarkersOfInput # << >>) =>
          /\ Len(result.val) = Len(MarkersOfInput)
          /\ \A i \in 1..Len(result.val) :
                result.val[i] = << MarkersOfInput[i] >> \o found[i]
          /\ \A i, j \in 1..Len(result.val) : Len(result.val[i]) = Len(result.val[j])
    /\ (Terminal /\ UnequalGroups) =>
          (pc = "failed" /\ error = "AssertionError" /\ result.kind = "none")

\* C7 witness: two groups of marker and neighbours were returned
C7_Witness ==
    /\ pc = "done" /\ result.kind = "value"
    /\ Len(result.val) >= 2 /\ Len(result.val[1]) >= 2

\* C10: a call on a structure without a marker site ends in the assertion
\* failure and returns nothing; a call returns if and only if there is at
\* least one marker site and all groups have the same length.
C10_NoMarkerFails ==
    Terminal =>
        /\ MarkersOfInput = << >> =>
              (pc = "failed" /\ error = "AssertionError" /\ result.kind = "none")
        /\ pc = "done" <=> (MarkersOfInput # << >> /\ ~UnequalGroups)

\* C10 witness: the call on a non-empty structure without marker site failed
C10_Witness ==
    /\ pc = "failed" /\ MarkersOfInput = << >> /\ heap[struct] # << >>

(***************************************************************************)
(* Properties of rotate_a_cation (specification SpecRotate)                *)
(***************************************************************************)
Copy == heap[struct_rotated]
GroupsInRange ==
    \A g \in 1..Len(groups) : \A j \in 1..Len(groups[g]) : InRange(struct0, groups[g][j])
IsRotate(o) == o.op = "rotate"
IsPerturb(o) == o.op = "perturb"
\* the position a site of the copy had just before rotate_sites call k
Before(coords, k) == SelectSeq(coords, LAMBDA o : IsRotate(o) => o.k < k)

\* C5: the structure the local variable and the return value refer to is not
\* the input object, and the input's sites (order, species, positions) are
\* at every moment what they were at the call.
C5_InputUntouched ==
    /\ heap[struct] = struct0
    /\ struct_rotated # struct
    /\ pc = "done" => (result.val = struct_rotated /\ result.val # struct)

\* C5 witness: the call returned a perturbed and rotated copy
C5_Witness ==
    /\ pc = "done" /\ rotLog # << >>
    /\ \E i \in 1..Len(Copy) : Len(Copy[i].coords) >= 3

\* C6: a call whose groups hold only in-range indices, with any maximum angle
\* >= 0, returns a structure, every group having been rotated by a drawn
\* angle a with -max <= a < max.
C6_OnlyIndexFailures ==
    (Terminal /\ GroupsInRange) =>
        /\ pc = "done" /\ result.kind = "value"
        /\ Len(rotLog) = Len(groups)
        /\ \A k \in 1..Len(rotLog) :
              -maximum_angle <= rotLog[k].angle /\ rotLog[k].angle < maximum_angle

\* C9: the perturbation is applied once, to every site of the copy, after the
\* copy and before any rotation, and never after a rotation; the groups are
\* rotated in list order, each by an angle of the range, about the center of
\* mass computed from the copy as it was just before that rotation.
C9_PerturbThenRotateInOrder ==
    /\ perturbs <= 1
    /\ perturbs = 1 <=> pc \notin {"call", "perturb"}
    /\ struct_rotated # "unset" =>
          \A i \in 1..Len(Copy) :
             LET c == Copy[i].coords
             IN  /\ c[1] = struct0[i].coords[1]
                 /\ perturbs = 0 => Len(c) = 1
                 /\ perturbs = 1 => (Len(c) >= 2 /\ IsPerturb(c[2]))
                 /\ \A n \in 3..Len(c) : IsRotate(c[n]) /\ (IsRotate(c[n-1]) => c[n-1].k <= c[n].k)
    /\ \A k \in 1..Len(rotLog) :
          /\ rotLog[k].group = k
          /\ rotLog[k].sites = groups[k]
          /\ rotLog[k].angle \in AngleRange(maximum_angle)
          /\ rotLog[k].anchor =
                get_center_of_mass(
                    [ i \in 1..Len(Copy) |-> [Copy[i] EXCEPT !.coords = Before(@, k)] ],
                    groups[k])
          /\ \A j \in 1..Len(groups[k]) :
                \E n \in 1..Len(Item(Copy, groups[k][j]).coords) :
                    Item(Copy, groups[k][j]).coords[n] = [op |-> "rotate", k |-> k]

\* C9 witness: the second group's center of mass was computed from a site
\* that the first group's rotation had already moved
C9_Witness ==
    /\ pc = "done" /\ Len(rotLog) = 2
    /\ \E j \in 1..Len(rotLog[2].anchor.terms) :
          \E n \in 1..Len(rotLog[2].anchor.terms[j].coords) :
              IsRotate(rotLog[2].anchor.terms[j].coords[n])

====
